---------------------------- MODULE Spec2Model ----------------------------
(***************************************************************************)
(* Model of gae_dashboard/sailthru_to_bigquery.py: the export of Sailthru  *)
(* campaign and blast data to BigQuery.  One run of the script is a state  *)
(* machine over the position of the interpreter (pc), the temp directory,  *)
(* the warehouse tables and the log of calls made to the outside world.    *)
(***************************************************************************)
EXTENDS Integers, Sequences, FiniteSets, TLC

VARIABLES
    pc,                \* position of the interpreter in the script
    args,              \* result of parser.parse_args()
    exc,               \* the uncaught exception, "none" while there is none
    temp_dir_exists,   \* the directory made by tempfile.mkdtemp exists
    files,             \* file name -> content, the files inside temp_dir
    tables,            \* table name -> rows, the sailthru_blasts dataset
    calls,             \* log of the calls made to Sailthru, urlopen and bq
    blast_id,          \* _send_blast_details_to_bq: argument
    job_id,            \* _send_blast_details_to_bq: local
    response_2,        \* _send_blast_details_to_bq: local
    status,            \* _send_campaign_report: argument
    start_date,        \* _send_campaign_report: argument
    end_date,          \* _send_campaign_report: argument
    blasts_info_json,  \* _send_campaign_report: local
    i,                 \* _send_campaign_report: loop index (0-based)
    recent_blast_ids,  \* _send_campaign_report: local
    returned,          \* <<set>> once _send_campaign_report has returned set
    recent_blasts,     \* __main__: the set the for loop iterates over
    todo               \* __main__: identifiers the for loop has not reached

vars == <<pc, args, exc, temp_dir_exists, files, tables, calls, blast_id,
          job_id, response_2, status, start_date, end_date, blasts_info_json, i,
          recent_blast_ids, returned, recent_blasts, todo>>

(***************************************************************************)
(* Bounds of the model.                                                    *)
(***************************************************************************)
MaxBlasts == 2      \* blasts of the daily run: records in the answer of GET blast
MaxRecords == 3     \* records in the answer of GET blast in campaigns mode
MaxPolls == 2       \* status requests made inside the while loop
MaxDataLines == 2   \* data lines of a downloaded csv

\* Runs of the script, one after the other, on the same warehouse
MaxRuns == 2

None == "None"

(***************************************************************************)
(* Text.  A text is a sequence of characters; "\n" ends a line.            *)
(***************************************************************************)
NL == "\n"

RECURSIVE Concat(_)
Concat(texts) ==
    IF texts = <<>> THEN <<>> ELSE Head(texts) \o Concat(Tail(texts))

Digit == <<"0", "1", "2", "3", "4", "5", "6", "7", "8", "9">>

\* str(n) for a natural number n
RECURSIVE Str(_)
Str(n) == IF n < 10 THEN <<Digit[n + 1]>>
                    ELSE Str(n \div 10) \o <<Digit[(n % 10) + 1]>>

\* The lines a file object yields when iterated: each keeps its "\n"; the
\* last one has none when the text does not end with "\n".
RECURSIVE Lines(_)
Lines(text) ==
    IF text = <<>> THEN <<>>
    ELSE LET nls == {k \in 1..Len(text) : text[k] = NL}
         IN IF nls = {} THEN <<text>>
            ELSE LET k == CHOOSE x \in nls : \A y \in nls : x <= y
                 IN <<SubSeq(text, 1, k)>> \o Lines(SubSeq(text, k + 1, Len(text)))

(***************************************************************************)
(* datetime.  A datetime is [ord, sec, us]: proleptic Gregorian ordinal of *)
(* the day, second of the day, microsecond.                                *)
(***************************************************************************)
DayAbbr == {"Mon", "Tue", "Wed", "Thu", "Fri", "Sat", "Sun"}
MonthAbbr == <<"Jan", "Feb", "Mar", "Apr", "May", "Jun",
               "Jul", "Aug", "Sep", "Oct", "Nov", "Dec">>
MonthName == <<"January", "February", "March", "April", "May", "June", "July",
               "August", "September", "October", "November", "December">>

IsLeap(y) == y % 4 = 0 /\ (y % 100 # 0 \/ y % 400 = 0)

DaysInMonth(y, m) ==
    IF m = 2 THEN (IF IsLeap(y) THEN 29 ELSE 28)
    ELSE IF m \in {4, 6, 9, 11} THEN 30 ELSE 31

RECURSIVE DaysBeforeMonth(_, _)
DaysBeforeMonth(y, m) ==
    IF m = 1 THEN 0 ELSE DaysBeforeMonth(y, m - 1) + DaysInMonth(y, m - 1)

DaysBeforeYear(y) ==
    (y - 1) * 365 + ((y - 1) \div 4) - ((y - 1) \div 100) + ((y - 1) \div 400)

ToOrdinal(y, m, d) == DaysBeforeYear(y) + DaysBeforeMonth(y, m) + d

ValueError == "ValueError"

\* What strptime gives: a datetime, or ValueError raised
Parsed(ord, sec, us) == [raise |-> FALSE, ord |-> ord, sec |-> sec, us |-> us]
Unparsed == [raise |-> TRUE, ord |-> 0, sec |-> 0, us |-> 0]

\* The value of the digits %f matched, right-padded with zeros to 6 digits.
RECURSIVE Fraction(_, _)
Fraction(digits, width) ==
    IF width = 0 THEN 0
    ELSE IF digits = <<>> THEN 0
    ELSE Head(digits) * (10 ^ (width - 1)) + Fraction(Tail(digits), width - 1)

\* Faulty variant: a format that takes either sign before the offset
StrptimeStartAnySign(s) ==
    IF /\ s.wd \in DayAbbr
       /\ s.d \in 1..31
       /\ \E m \in 1..12 : MonthAbbr[m] = s.mon
       /\ s.H \in 0..23 /\ s.M \in 0..59 /\ s.S \in 0..59
       /\ s.sign \in {"-", "+"}
       /\ Len(s.off) \in 1..6
    THEN LET m == CHOOSE k \in 1..12 : MonthAbbr[k] = s.mon
         IN IF s.d > DaysInMonth(s.y, m) THEN Unparsed
            ELSE Parsed(ToOrdinal(s.y, m, s.d),
                        (s.H * 60 + s.M) * 60 + s.S,
                        Fraction(s.off, 6))
    ELSE Unparsed

\* strptime(s, '%a, %d %b %Y %H:%M:%S -%f').  s is the string cut into the
\* fields the directives match: [wd, d, mon, y, H, M, S, sign, off].
StrptimeStart(s) ==
    IF /\ s.wd \in DayAbbr
       /\ s.d \in 1..31
       /\ \E m \in 1..12 : MonthAbbr[m] = s.mon
       /\ s.H \in 0..23 /\ s.M \in 0..59 /\ s.S \in 0..59
       /\ s.sign = "-"
       /\ Len(s.off) \in 1..6
    THEN LET m == CHOOSE k \in 1..12 : MonthAbbr[k] = s.mon
         IN IF s.d > DaysInMonth(s.y, m) THEN Unparsed
            ELSE Parsed(ToOrdinal(s.y, m, s.d),
                        (s.H * 60 + s.M) * 60 + s.S,
                        Fraction(s.off, 6))
    ELSE Unparsed

\* strptime(s, '%B %d %Y').  s is [mon, d, y].
StrptimeEnd(s) ==
    IF (\E m \in 1..12 : MonthName[m] = s.mon) /\ s.d \in 1..31
    THEN LET m == CHOOSE k \in 1..12 : MonthName[k] = s.mon
         IN IF s.d > DaysInMonth(s.y, m) THEN Unparsed
            ELSE Parsed(ToOrdinal(s.y, m, s.d), 0, 0)
    ELSE Unparsed

\* Faulty variant: the days are added
MinusDaysAdded(dt, n) == [dt EXCEPT !.ord = dt.ord + n]

\* dt - datetime.timedelta(days=n)
MinusDays(dt, n) == [dt EXCEPT !.ord = dt.ord - n]

\* a >= b on datetimes
DateGe(a, b) ==
    \/ a.ord > b.ord
    \/ a.ord = b.ord /\ a.sec > b.sec
    \/ a.ord = b.ord /\ a.sec = b.sec /\ a.us >= b.us

\* "{:%B %d %Y}".format(date), date = [y, m, d]
FormatDate(date) == [mon |-> MonthName[date.m], d |-> date.d, y |-> date.y]


(***************************************************************************)
(* Files of the temp directory and tables of the warehouse.                *)
(***************************************************************************)
NoFiles == [n \in {} |-> <<>>]

\* Faulty variant: the file is opened for appending
OpenAppend(fs, name) == IF name \in DOMAIN fs THEN fs ELSE (name :> <<>>) @@ fs

\* open(os.path.join(temp_dir, name), "wb"): creates or truncates the file
OpenWb(fs, name) == (name :> <<>>) @@ fs

\* f.write(text)
Write(fs, name, text) == [fs EXCEPT ![name] = @ \o text]

BlastFile == "blast_export.csv"
CampaignFile == "campaigns_export.json"

\* "sailthru_blasts.blast_%s" % str(blast_id)
BlastTable(id) == <<"sailthru_blasts.blast_">> \o Str(id)
CampaignTable == <<"sailthru_blasts.campaigns">>

\* bq load [--replace] table file schema: the rows of the file replace the
\* table's rows, or are appended to them.
BqLoad(tbls, table, rows, replace) ==
    IF replace \/ table \notin DOMAIN tbls
    THEN (table :> rows) @@ tbls
    ELSE [tbls EXCEPT ![table] = @ \o rows]

\* A line without its line terminator
Chomp(line) ==
    IF line # <<>> /\ line[Len(line)] = NL THEN SubSeq(line, 1, Len(line) - 1)
    ELSE line

\* The rows bq reads from a csv file with --skip_leading_rows=1
CsvRows(text) ==
    LET ls == Lines(text)
    IN [k \in 1..(Len(ls) - 1) |-> Chomp(ls[k + 1])]

(***************************************************************************)
(* JSON.  A JSON text is a sequence of tokens; JNL is the "\n" the script  *)
(* writes between two records.                                             *)
(***************************************************************************)
JNL == [tok |-> "\n"]

\* json.dump(record, json_file): the text written for one record
JsonDump(r) ==
    << [tok |-> "{"],
       [tok |-> "key", key |-> "blast_id"], [tok |-> "int", int |-> r.blast_id],
       [tok |-> ","],
       [tok |-> "key", key |-> "start_time"], [tok |-> "str", str |-> r.start_time],
       [tok |-> "}"] >>

\* The object a line of a NEWLINE_DELIMITED_JSON file stands for
JsonLoads(line) == [blast_id |-> line[3].int, start_time |-> line[6].str]

RECURSIVE JsonLines(_)
JsonLines(text) ==
    IF text = <<>> THEN <<>>
    ELSE LET nls == {k \in 1..Len(text) : text[k].tok = "\n"}
         IN IF nls = {} THEN <<text>>
            ELSE LET k == CHOOSE x \in nls : \A y \in nls : x <= y
                 IN <<SubSeq(text, 1, k - 1)>>
                        \o JsonLines(SubSeq(text, k + 1, Len(text)))

\* The rows bq reads from a newline-delimited JSON file
NdjsonRows(text) ==
    LET ls == JsonLines(text)
    IN [k \in 1..Len(ls) |-> JsonLoads(ls[k])]

(***************************************************************************)
(* The API wrapper.  A response is [ok, body]; the wrapper hands it back   *)
(* or raises SailthruAPIException.                                         *)
(***************************************************************************)
SailthruAPIException == "SailthruAPIException"

\* body.get(key): None when the body has no such key
BodyGet(body, key) == IF key \in DOMAIN body THEN body[key] ELSE None

\* Faulty variant: the response is handed back whatever is_ok() says
postUnchecked(response) == [raise |-> FALSE, response |-> response]

\* _post(arg, **kwargs), given the response of client.api_post
post(response) ==
    IF ~response.ok THEN [raise |-> TRUE, response |-> response]
    ELSE [raise |-> FALSE, response |-> response]

\* _get(arg, **kwargs), given the response of client.api_get
get(response) ==
    IF ~response.ok THEN [raise |-> TRUE, response |-> response]
    ELSE [raise |-> FALSE, response |-> response]


(***************************************************************************)
(* The script.                                                             *)
(***************************************************************************)
blast_locals == <<blast_id, job_id, response_2>>
report_locals == <<status, start_date, end_date, blasts_info_json, i,
                   recent_blast_ids>>
main_locals == <<recent_blasts, todo>>
outside == <<temp_dir_exists, files, tables>>

Init ==
    /\ pc = "parse_args"
    /\ args = [subparser_name |-> None]
    /\ exc = "none"
    /\ temp_dir_exists = TRUE          \* tempfile.mkdtemp("temp_data_dir")
    /\ files = NoFiles
    /\ tables = [t \in {} |-> <<>>]
    /\ calls = <<>>
    /\ blast_id = 0
    /\ job_id = None
    /\ response_2 = [ok |-> FALSE, body |-> [status |-> None, export_url |-> None]]
    /\ status = None
    /\ start_date = [mon |-> None, d |-> 0, y |-> 0]
    /\ end_date = [mon |-> None, d |-> 0, y |-> 0]
    /\ blasts_info_json = <<>>
    /\ i = 0
    /\ recent_blast_ids = {}
    /\ returned = <<>>
    /\ recent_blasts = {}
    /\ todo = {}

\* Faulty variant: the exception is caught and the for loop goes on
RaiseAndGoOn(e) == pc' = "for" /\ exc' = e

\* An exception nobody catches ends the script where it is raised.
Raise(e) == pc' = "exit" /\ exc' = e

StatusChoices == {"sent", "sending", "scheduled", "draft"}

\* What argparse accepts: a known sub-command, and for campaigns a status
\* among the choices.
ValidArgs(argv) ==
    /\ argv.subparser_name \in {"blast", "campaigns", "export"}
    /\ argv.subparser_name = "campaigns" => argv.status \in StatusChoices

\* args = parser.parse_args()
ParseArgs(argv) ==
    /\ pc = "parse_args"
    /\ IF ValidArgs(argv)
       THEN args' = argv /\ pc' = "main" /\ UNCHANGED exc
       ELSE Raise("SystemExit") /\ UNCHANGED args
    /\ UNCHANGED <<outside, calls, blast_locals, report_locals, returned,
                   main_locals>>

\* Where _send_blast_details_to_bq returns to
AfterBlast == IF args.subparser_name = "blast" THEN "rmtree" ELSE "for"

\* Faulty variant: the for loop of the daily run follows every report
ReportOnlyNever == FALSE

\* The elif branch: the set _send_campaign_report returns is dropped
ReportOnly == args.subparser_name = "campaigns"

\* Faulty variant: the daily run stops after the report
AfterReportNoLoop == "rmtree"

\* Where _send_campaign_report returns to
AfterReport == IF ReportOnly THEN "rmtree" ELSE "for"

\* The if / elif / else on args.subparser_name; today is datetime.date.today()
Main(today) ==
    /\ pc = "main"
    /\ IF args.subparser_name = "blast"
       THEN /\ blast_id' = args.blast_id
            /\ pc' = "post_job"
            /\ UNCHANGED <<status, start_date, end_date>>
       ELSE IF args.subparser_name = "campaigns"
       THEN /\ status' = args.status
            /\ start_date' = args.start_date
            /\ end_date' = args.end_date
            /\ pc' = "get_blast"
            /\ UNCHANGED blast_id
       ELSE /\ status' = "sent"
            /\ start_date' = [mon |-> "January", d |-> 1, y |-> 2010]
            /\ end_date' = FormatDate(today)
            /\ pc' = "get_blast"
            /\ UNCHANGED blast_id
    /\ UNCHANGED <<args, exc, outside, calls, job_id, response_2,
                   blasts_info_json, i, recent_blast_ids, returned, main_locals>>

(***************************************************************************)
(* _send_campaign_report                                                   *)
(***************************************************************************)
\* response = _get('blast', ...); blasts_info_json = ...; open(..., "wb")
ApiGetBlast(response) ==
    /\ pc = "get_blast"
    /\ calls' = Append(calls, [op |-> "api_get", action |-> "blast",
                               status |-> status, start_date |-> start_date,
                               end_date |-> end_date, ok |-> response.ok])
    /\ IF get(response).raise
       THEN /\ Raise(SailthruAPIException)
            /\ UNCHANGED <<blasts_info_json, i, recent_blast_ids, files>>
       ELSE /\ recent_blast_ids' = {}
            /\ blasts_info_json' = get(response).response.body.blasts
            /\ files' = OpenWb(files, CampaignFile)
            /\ i' = 0
            /\ pc' = "report_loop"
            /\ UNCHANGED exc
    /\ UNCHANGED <<args, temp_dir_exists, tables, blast_locals, status,
                   start_date, end_date, returned, main_locals>>

\* Faulty variant: > in place of >=
IsRecentStrict(date, end) == ~DateGe(MinusDays(end, 7), date)

\* date >= strptime(end_date, '%B %d %Y') - timedelta(days=7)
IsRecent(date, end) == DateGe(date, MinusDays(end, 7))

\* Faulty variant: a "\n" after every record
SeparatorAlways(idx, length) == <<JNL>>

\* if i != len(blasts_info_json) - 1: json_file.write("\n")
Separator(idx, length) == IF idx # length - 1 THEN <<JNL>> ELSE <<>>

\* One iteration of for i in range(all_blasts_length)
ReportLoopBody ==
    /\ pc = "report_loop"
    /\ i < Len(blasts_info_json)
    /\ LET record == blasts_info_json[i + 1]
           date == StrptimeStart(record.start_time)
           end == StrptimeEnd(end_date)
       IN IF date.raise \/ end.raise
          THEN /\ Raise(ValueError)
               /\ UNCHANGED <<recent_blast_ids, files, i>>
          ELSE /\ recent_blast_ids' =
                      IF IsRecent(date, end)
                      THEN recent_blast_ids \cup {record.blast_id}
                      ELSE recent_blast_ids
               /\ files' = Write(files, CampaignFile,
                                 JsonDump(record) \o
                                   Separator(i, Len(blasts_info_json)))
               /\ i' = i + 1
               /\ UNCHANGED <<pc, exc>>
    /\ UNCHANGED <<args, temp_dir_exists, tables, calls, blast_locals, status,
                   start_date, end_date, blasts_info_json, returned, main_locals>>

\* bq_util.call_bq(['load', ..., table_name, file, schema]); return
LoadCampaigns(ok) ==
    /\ pc = "report_loop"
    /\ i = Len(blasts_info_json)
    /\ calls' = Append(calls, [op |-> "bq_load", table |-> CampaignTable,
                               file |-> CampaignFile, replace |-> FALSE,
                               ok |-> ok])
    /\ IF ok
       THEN /\ tables' = BqLoad(tables, CampaignTable,
                                NdjsonRows(files[CampaignFile]), FALSE)
            /\ returned' = <<recent_blast_ids>>
            /\ recent_blasts' =
                   IF ReportOnly THEN recent_blasts ELSE recent_blast_ids
            /\ todo' = IF ReportOnly THEN todo ELSE recent_blast_ids
            /\ pc' = AfterReport
            /\ UNCHANGED exc
       ELSE /\ Raise("LoadError")
            /\ UNCHANGED <<tables, returned, recent_blasts, todo>>
    /\ UNCHANGED <<args, temp_dir_exists, files, blast_locals, report_locals>>


(***************************************************************************)
(* _send_blast_details_to_bq                                               *)
(***************************************************************************)
\* Faulty variant: the missing job_id is not noticed
AfterPostUnchecked(id) == "get_job"

\* if job_id is None: return
AfterPost(id) == IF id = None THEN AfterBlast ELSE "get_job"

\* response_1 = _post('job', job="blast_query", blast_id=blast_id); job_id
ApiPostJob(response) ==
    /\ pc = "post_job"
    /\ calls' = Append(calls, [op |-> "api_post", action |-> "job",
                               job |-> "blast_query", blast_id |-> blast_id,
                               response |-> response])
    /\ IF post(response).raise
       THEN Raise(SailthruAPIException) /\ UNCHANGED job_id
       ELSE /\ job_id' = BodyGet(post(response).response.body, "job_id")
            /\ pc' = AfterPost(job_id')
            /\ UNCHANGED exc
    /\ UNCHANGED <<args, outside, blast_id, response_2, report_locals,
                   returned, main_locals>>

\* Faulty variant: the loop is not left when the job is completed
WhileTestNever(response) == "sleep"

\* Faulty variant: the loop is left on any status but queued
WhileTestNotQueued(response) ==
    IF BodyGet(response.body, "status") = "queued" THEN "sleep"
    ELSE "download"

\* The test of the while loop
WhileTest(response) ==
    IF BodyGet(response.body, "status") # "completed" THEN "sleep"
    ELSE "download"

\* response_2 = _get('job', job_id=job_id), before the loop
ApiGetJob(response) ==
    /\ pc = "get_job"
    /\ calls' = Append(calls, [op |-> "api_get", action |-> "job",
                               job_id |-> job_id, response |-> response])
    /\ IF get(response).raise
       THEN Raise(SailthruAPIException) /\ UNCHANGED response_2
       ELSE /\ response_2' = get(response).response
            /\ pc' = WhileTest(response_2')
            /\ UNCHANGED exc
    /\ UNCHANGED <<args, outside, blast_id, job_id, report_locals, returned,
                   main_locals>>

\* The status requests made inside the while loop so far, for this job
Polls ==
    LET posts == {k \in 1..Len(calls) : calls[k].op = "api_post"}
    IN Cardinality({k \in 1..Len(calls) :
                       /\ calls[k].op = "sleep"
                       /\ \A p \in posts : p < k})

\* Faulty variant: the loop does not look for expired
ExpiredTestMissing(response) == FALSE

\* The test made on the response inside the loop
ExpiredTest(response) == BodyGet(response.body, "status") = "expired"

\* The body of the while loop: time.sleep(5); response_2 = _get(...); if ...
SleepAndPoll(response) ==
    /\ pc = "sleep"
    /\ Polls < MaxPolls
    /\ calls' = calls \o << [op |-> "sleep", seconds |-> 5],
                            [op |-> "api_get", action |-> "job",
                             job_id |-> job_id, response |-> response] >>
    /\ IF get(response).raise
       THEN Raise(SailthruAPIException) /\ UNCHANGED response_2
       ELSE /\ response_2' = get(response).response
            /\ IF ExpiredTest(response_2')
               THEN Raise(SailthruAPIException)
               ELSE pc' = WhileTest(response_2') /\ UNCHANGED exc
    /\ UNCHANGED <<args, outside, blast_id, job_id, report_locals, returned,
                   main_locals>>

RECURSIVE WriteDataLines(_, _)
\* for line in csvdata: f.write("%s,%s" % (blast_id, line))
WriteDataLines(id, lines) ==
    IF lines = <<>> THEN <<>>
    ELSE (Str(id) \o <<",">> \o Head(lines)) \o WriteDataLines(id, Tail(lines))

\* What lines 139-142 write, given the lines of the download (at least one)
RewriteCsv(id, lines) ==
    (<<"blast_id", ",">> \o Head(lines)) \o WriteDataLines(id, Tail(lines))

\* filename_url = ...; open(..., "wb"); urlopen; the rewriting of the lines.
\* download is what urlopen gives: [ok, data].
DownloadAndRewrite(download) ==
    /\ pc = "download"
    /\ calls' = Append(calls, [op |-> "urlopen",
                               url |-> BodyGet(response_2.body, "export_url"),
                               download |-> download])
    /\ IF ~download.ok
       THEN files' = OpenWb(files, BlastFile) /\ Raise("IOError")
       ELSE IF Lines(download.data) = <<>>
       THEN files' = OpenWb(files, BlastFile) /\ Raise("StopIteration")
       ELSE /\ files' = Write(OpenWb(files, BlastFile), BlastFile,
                              RewriteCsv(blast_id, Lines(download.data)))
            /\ pc' = "load_blast"
            /\ UNCHANGED exc
    /\ UNCHANGED <<args, temp_dir_exists, tables, blast_locals, report_locals,
                   returned, main_locals>>

\* Faulty variant: the load of a blast without --replace
BlastLoadAppends == FALSE

\* '--replace' is among the arguments of the load of a blast
BlastLoadReplace == TRUE

\* bq_util.call_bq(['load', ..., '--replace', table_name, file, schema])
LoadBlast(ok) ==
    /\ pc = "load_blast"
    /\ calls' = Append(calls, [op |-> "bq_load", table |-> BlastTable(blast_id),
                               file |-> BlastFile, replace |-> BlastLoadReplace,
                               ok |-> ok])
    /\ IF ok
       THEN /\ tables' = BqLoad(tables, BlastTable(blast_id),
                                CsvRows(files[BlastFile]), BlastLoadReplace)
            /\ pc' = AfterBlast
            /\ UNCHANGED exc
       ELSE Raise("LoadError") /\ UNCHANGED tables
    /\ UNCHANGED <<args, temp_dir_exists, files, blast_locals, report_locals,
                   returned, main_locals>>

(***************************************************************************)
(* __main__, after the pipelines                                           *)
(***************************************************************************)
\* for id in recent_blasts: the next identifier, in no particular order
ForNext(id) ==
    /\ pc = "for"
    /\ id \in todo
    /\ todo' = todo \ {id}
    /\ blast_id' = id
    /\ pc' = "post_job"
    /\ UNCHANGED <<args, exc, outside, calls, job_id, response_2,
                   report_locals, returned, recent_blasts>>

\* The for loop is over
ForEnd ==
    /\ pc = "for"
    /\ todo = {}
    /\ pc' = "rmtree"
    /\ UNCHANGED <<args, exc, outside, calls, blast_locals, report_locals,
                   returned, main_locals>>

\* shutil.rmtree(temp_dir), the last statement
Rmtree ==
    /\ pc = "rmtree"
    /\ temp_dir_exists' = FALSE
    /\ files' = NoFiles
    /\ pc' = "done"
    /\ UNCHANGED <<args, exc, tables, calls, blast_locals, report_locals,
                   returned, main_locals>>


(***************************************************************************)
(* What the outside world may answer.                                      *)
(***************************************************************************)
BlastIds == 1..(IF MaxBlasts > MaxRecords THEN MaxBlasts ELSE MaxRecords)

StartTime(wd, d, mon, y, H, M, S, sign, off) ==
    [wd |-> wd, d |-> d, mon |-> mon, y |-> y, H |-> H, M |-> M, S |-> S,
     sign |-> sign, off |-> off]

Jan01 == StartTime("Mon", 1, "Jan", 2017, 0, 0, 0, "-", <<0, 0, 0, 0>>)
Jan08 == StartTime("Mon", 8, "Jan", 2017, 0, 0, 0, "-", <<0, 0, 0, 0>>)
Jan06 == StartTime("Fri", 6, "Jan", 2017, 0, 0, 0, "-", <<0, 0, 0, 0>>)
Jan05Late == StartTime("Thu", 5, "Jan", 2017, 23, 59, 59, "-", <<0, 5, 0, 0>>)
Dec31 == StartTime("Sat", 31, "Dec", 2016, 0, 0, 0, "-", <<0, 0, 0, 0>>)
Dec30Late == StartTime("Fri", 30, "Dec", 2016, 23, 59, 59, "-", <<0, 8, 0, 0>>)
PlusOffset == StartTime("Sun", 8, "Jan", 2017, 0, 0, 0, "+", <<0, 1, 0, 0>>)
Feb30 == StartTime("Mon", 30, "Feb", 2017, 0, 0, 0, "-", <<0, 0, 0, 0>>)

January13 == [mon |-> "January", d |-> 13, y |-> 2017]
January7 == [mon |-> "January", d |-> 7, y |-> 2017]
January1 == [mon |-> "January", d |-> 1, y |-> 2017]
ShortMonth == [mon |-> "Jan", d |-> 13, y |-> 2017]

\* The lists of at most n records with start times in sts, one record per
\* blast, the blasts listed by increasing identifier
RecordLists(n, sts) ==
    UNION {{l \in [1..k -> [blast_id : 1..n, start_time : sts]] :
               \A a, b \in 1..k : a < b => l[a].blast_id < l[b].blast_id}
           : k \in 0..n}

\* A response whose is_ok() is false: its body describes the error
NotOk == [ok |-> FALSE, body |-> [error |-> "error", errormsg |-> "message"]]

\* Answers to GET blast
BlastResponses(lists) ==
    {NotOk} \cup {[ok |-> TRUE, body |-> [blasts |-> l]] : l \in lists}

\* Answers to POST job
PostResponses ==
    {NotOk, [ok |-> TRUE, body |-> [job_id |-> None]],
            [ok |-> TRUE, body |-> [job_id |-> "job"]]}

Statuses == {"queued", "completed", "expired"}

\* The urls an answer may carry before the job is completed
EarlyUrls(urls) == {None} \cup (urls \ {"url1"})

\* Answers to GET job: a completed job carries the url of its export
JobResponses(urls) ==
    {NotOk} \cup
    {[ok |-> TRUE, body |-> [status |-> s, export_url |-> u]] :
         s \in Statuses \ {"completed"}, u \in EarlyUrls(urls)} \cup
    {[ok |-> TRUE, body |-> [status |-> "completed", export_url |-> u]] :
         u \in urls}

\* The csv texts of a header and at most n data lines, the last line with or
\* without its "\n"
CsvTexts(n, headers, bodies) ==
    LET full(h, ds) == h \o <<NL>> \o Concat([k \in 1..Len(ds) |-> ds[k] \o <<NL>>])
        all == UNION {{full(h, ds) : h \in headers, ds \in [1..k -> bodies]}
                      : k \in 0..n}
    IN all \cup {SubSeq(t, 1, Len(t) - 1) : t \in all}

\* What urlopen may give
Downloads(texts) ==
    {NotOk, [ok |-> TRUE, data |-> <<>>]} \cup
    {[ok |-> TRUE, data |-> t] : t \in texts}

(***************************************************************************)
(* Spec: one run of the script, in any of its three modes.  A run in blast *)
(* mode or in campaigns mode is explored with every answer of the sets     *)
(* below; the daily run, which chains the two pipelines, with fewer.       *)
(***************************************************************************)
Argvs ==
    {[subparser_name |-> "blast", blast_id |-> b] : b \in BlastIds} \cup
    {[subparser_name |-> "campaigns", status |-> "sent",
      start_date |-> January1, end_date |-> ed] :
         ed \in {January13, January7, ShortMonth}} \cup
    {[subparser_name |-> "campaigns", status |-> s, start_date |-> January13,
      end_date |-> January13] : s \in {"draft", "bogus"}} \cup
    {[subparser_name |-> "export"]}

Todays == {[y |-> 2017, m |-> 1, d |-> 13]}

Blasts ==
    IF args.subparser_name = "campaigns"
    THEN RecordLists(MaxRecords, {Jan01, Jan08, Jan06, Jan05Late, Dec31,
                                  Dec30Late, PlusOffset, Feb30})
    ELSE RecordLists(MaxBlasts, {Jan01, Jan08, PlusOffset})

Urls == IF args.subparser_name = "blast" THEN {"url1", "url2"} ELSE {"url1"}

Csvs ==
    IF args.subparser_name = "blast"
    THEN CsvTexts(MaxDataLines, {<<"email">>, <<"email", ",", "opens">>},
                  {<<>>, <<"a">>, <<"b", ",", "1">>})
    ELSE {<<"email", NL>>, <<"email", NL, "a", NL>>}

Next ==
    \/ pc = "parse_args" /\ \E argv \in Argvs : ParseArgs(argv)
    \/ pc = "main" /\ \E today \in Todays : Main(today)
    \/ pc = "get_blast" /\ \E response \in BlastResponses(Blasts) :
                               ApiGetBlast(response)
    \/ ReportLoopBody
    \/ \E ok \in BOOLEAN : LoadCampaigns(ok)
    \/ \E id \in BlastIds : ForNext(id)
    \/ ForEnd
    \/ \E response \in PostResponses : ApiPostJob(response)
    \/ pc = "get_job" /\ \E response \in JobResponses(Urls) : ApiGetJob(response)
    \/ pc = "sleep" /\ \E response \in JobResponses(Urls) : SleepAndPoll(response)
    \/ pc = "download" /\ \E download \in Downloads(Csvs) :
                              DownloadAndRewrite(download)
    \/ \E ok \in BOOLEAN : LoadBlast(ok)
    \/ Rmtree

Spec == Init /\ [][Next]_vars

(***************************************************************************)
(* SpecRuns: the script run again and again, by hand or by cron, against   *)
(* the same warehouse.  Every run has a temp directory of its own; the     *)
(* tables stay, and so does the log, where an entry "run" marks the start  *)
(* of a run.  The remote job is completed at the first status request, and *)
(* the answers are few, to keep the runs short.                            *)
(***************************************************************************)
Runs == 1 + Cardinality({k \in 1..Len(calls) : calls[k].op = "run"})

\* The script is started again: the state of __main__ at line 225
RunAgain ==
    /\ pc \in {"done", "exit"}
    /\ Runs < MaxRuns
    /\ calls' = Append(calls, [op |-> "run"])
    /\ pc' = "parse_args"
    /\ args' = [subparser_name |-> None]
    /\ exc' = "none"
    /\ temp_dir_exists' = TRUE
    /\ files' = NoFiles
    /\ blast_id' = 0
    /\ job_id' = None
    /\ response_2' = [ok |-> FALSE,
                      body |-> [status |-> None, export_url |-> None]]
    /\ status' = None
    /\ start_date' = [mon |-> None, d |-> 0, y |-> 0]
    /\ end_date' = [mon |-> None, d |-> 0, y |-> 0]
    /\ blasts_info_json' = <<>>
    /\ i' = 0
    /\ recent_blast_ids' = {}
    /\ returned' = <<>>
    /\ recent_blasts' = {}
    /\ todo' = {}
    /\ UNCHANGED tables

RunArgvs ==
    {[subparser_name |-> "blast", blast_id |-> b] : b \in {1, 2}} \cup
    {[subparser_name |-> "campaigns", status |-> "sent",
      start_date |-> January1, end_date |-> January13]} \cup
    {[subparser_name |-> "export"]}

\* No campaign, an old one, or a recent one
RunBlasts == RecordLists(1, {Jan01, Jan08})

RunJobResponses ==
    {NotOk, [ok |-> TRUE, body |-> [status |-> "completed",
                                    export_url |-> "url1"]]}

RunCsvs == {<<"email", NL>>, <<"email", NL, "a", NL>>,
            <<"email", NL, "b", NL, "a", NL>>}

NextRuns ==
    \/ pc = "parse_args" /\ \E argv \in RunArgvs : ParseArgs(argv)
    \/ pc = "main" /\ \E today \in Todays : Main(today)
    \/ pc = "get_blast" /\ \E response \in BlastResponses(RunBlasts) :
                               ApiGetBlast(response)
    \/ ReportLoopBody
    \/ \E ok \in BOOLEAN : LoadCampaigns(ok)
    \/ \E id \in BlastIds : ForNext(id)
    \/ ForEnd
    \/ \E response \in PostResponses : ApiPostJob(response)
    \/ pc = "get_job" /\ \E response \in RunJobResponses : ApiGetJob(response)
    \/ pc = "download" /\ \E download \in Downloads(RunCsvs) :
                              DownloadAndRewrite(download)
    \/ \E ok \in BOOLEAN : LoadBlast(ok)
    \/ Rmtree
    \/ RunAgain

SpecRuns == Init /\ [][NextRuns]_vars

(***************************************************************************)
(* SpecLive: one run in blast mode, with the remote job as the spec has    *)
(* it: its status is queued until it is completed or expired, and stays    *)
(* one of these two from then on.  The model lets the loop make MaxPolls   *)
(* status requests, so the job leaves queued before the last of them.  The *)
(* script is one thread that nothing suspends: when it can take a step it  *)
(* takes one (time.sleep(5) returns, the request is answered).             *)
(***************************************************************************)
\* A status request of the current job was answered completed or expired
JobIsOver ==
    \E k \in 1..Len(calls) :
        /\ calls[k].op = "api_get"
        /\ calls[k].response.ok
        /\ calls[k].response.body.status \in {"completed", "expired"}

\* Answers of the remote job to a status request made inside the loop
LiveJobResponses ==
    IF JobIsOver \/ Polls >= MaxPolls - 1
    THEN {r \in JobResponses(Urls) :
             ~r.ok \/ r.body.status \in {"completed", "expired"}}
    ELSE JobResponses(Urls)

LiveArgvs == {[subparser_name |-> "blast", blast_id |-> b] : b \in BlastIds}

NextLive ==
    \/ pc = "parse_args" /\ \E argv \in LiveArgvs : ParseArgs(argv)
    \/ pc = "main" /\ \E today \in Todays : Main(today)
    \/ \E response \in PostResponses : ApiPostJob(response)
    \/ pc = "get_job" /\ \E response \in JobResponses(Urls) : ApiGetJob(response)
    \/ pc = "sleep" /\ \E response \in LiveJobResponses : SleepAndPoll(response)
    \/ pc = "download" /\ \E download \in Downloads(Csvs) :
                              DownloadAndRewrite(download)
    \/ \E ok \in BOOLEAN : LoadBlast(ok)
    \/ Rmtree

SpecLive == Init /\ [][NextLive]_vars /\ WF_vars(NextLive)

(***************************************************************************)
(* Properties.  The log of calls is cut at the last job submission: what   *)
(* follows it belongs to the export of the current blast.                  *)
(***************************************************************************)
IsPost(k) == calls[k].op = "api_post"
IsPoll(k) == calls[k].op = "api_get" /\ calls[k].action = "job"
IsDownload(k) == calls[k].op = "urlopen"
IsLoad(k) == calls[k].op = "bq_load"

\* The status a poll returned; "error" for a failed response
PollStatus(k) ==
    IF calls[k].response.ok THEN calls[k].response.body.status ELSE "error"

LastPost ==
    LET posts == {k \in 1..Len(calls) : IsPost(k)}
    IN IF posts = {} THEN 0 ELSE CHOOSE k \in posts : \A j \in posts : j <= k

\* The polls of the current blast's job, in order
CurrentPolls == {k \in (LastPost + 1)..Len(calls) : IsPoll(k)}

\* The export of the current blast went on to the download or to the load
CurrentProceeded ==
    \E k \in (LastPost + 1)..Len(calls) : IsDownload(k) \/ IsLoad(k)

\* The polls of the current job returned queued one or more times, then
\* expired, and nothing else
QueuedThenExpired ==
    /\ Cardinality(CurrentPolls) >= 2
    /\ \E e \in CurrentPolls :
          /\ PollStatus(e) = "expired"
          /\ \A k \in CurrentPolls \ {e} : k < e /\ PollStatus(k) = "queued"

\* C1: when the polls of a job return queued and then expired, without ever
\* returning completed, the export has failed with SailthruAPIException and
\* there is neither a download nor a load for that blast.
C1_QueuedThenExpiredFails ==
    QueuedThenExpired =>
        /\ pc = "exit"
        /\ exc = SailthruAPIException
        /\ ~CurrentProceeded

\* A daily run reached the case of C1 on its second blast, the first one loaded
C1_Witness ==
    /\ QueuedThenExpired
    /\ pc = "exit"
    /\ args.subparser_name = "export"
    /\ \E k \in 1..LastPost : IsLoad(k) /\ calls[k].replace /\ calls[k].ok

\* C2 (as claimed): a poll that returns expired, the first one included, is
\* the last thing the export does: the pipeline has failed with
\* SailthruAPIException and no call follows the poll.
C2_ExpiredFailsAtOnce ==
    \A k \in 1..Len(calls) :
        (IsPoll(k) /\ PollStatus(k) = "expired") =>
            /\ k = Len(calls)
            /\ pc = "exit"
            /\ exc = SailthruAPIException

\* C3: when the answer to the submission carries no job_id, nothing was
\* raised and the export made no other call: the submission is the last call
\* of the run, or the next call is the submission for another blast.
C3_NoJobIdIsNoOp ==
    \A k \in 1..Len(calls) :
        (IsPost(k) /\ calls[k].response.ok
                   /\ calls[k].response.body.job_id = None) =>
            /\ exc = "none" \/ k < LastPost
            /\ k = Len(calls) =>
                   /\ pc \in {"for", "post_job", "rmtree", "done"}
                   /\ pc = "post_job" => blast_id # calls[k].blast_id
            /\ k < Len(calls) =>
                   /\ IsPost(k + 1)
                   /\ calls[k + 1].blast_id # calls[k].blast_id

\* A run in blast mode ended normally after a submission without job_id
C3_Witness ==
    /\ pc = "done"
    /\ args.subparser_name = "blast"
    /\ Len(calls) = 1
    /\ calls[1].response.ok
    /\ calls[1].response.body.job_id = None
    /\ exc = "none"

\* C4 (as claimed): when the run is over, normally or by an exception that
\* came out of a pipeline, the temp directory is gone.
C4_TempDirAlwaysDeleted ==
    (pc \in {"done", "exit"} /\ exc # "SystemExit") => ~temp_dir_exists

\* The start time of a record is on the day of end - 7 days or later
OnOrAfterCutoff(record, end) ==
    StrptimeStart(record.start_time).ord >= StrptimeEnd(end).ord - 7

Records == {blasts_info_json[k] : k \in 1..Len(blasts_info_json)}

\* C5: the set _send_campaign_report returns holds the blast_id of exactly
\* the records whose start_time is not before end_date - 7 days, the record
\* at exactly 7 days included; start_date plays no part.
C5_RecentSetIsWindow ==
    returned # <<>> =>
        returned[1] = {r.blast_id : r \in {x \in Records : OnOrAfterCutoff(x, end_date)}}

\* A returned set with the record at exactly 7 days in it and the record of
\* the second before left out
C5_Witness ==
    /\ returned # <<>>
    /\ end_date = January13
    /\ \E a, b \in Records :
          /\ a.start_time = Jan06 /\ a.blast_id \in returned[1]
          /\ b.start_time = Jan05Late /\ b.blast_id \notin returned[1]

\* The two records and the end_date of the example, and the set returned
C6_Case ==
    /\ blasts_info_json = << [blast_id |-> 1, start_time |-> Jan01],
                             [blast_id |-> 2, start_time |-> Jan08] >>
    /\ end_date = January13
    /\ returned # <<>>

\* C6 (as claimed): for blast 1 started Jan 01 2017, blast 2 started Jan 08
\* 2017 and end_date January 13 2017, the set returned is {1, 2}.
C6_ExampleBoth == C6_Case => returned[1] = {1, 2}

\* C6 (amended): for the same records and end_date the set returned is {2}:
\* Jan 01 is 12 days before Jan 13.
C6_ExampleOnlySecond == C6_Case => returned[1] = {2}

C6_Witness == C6_Case /\ pc = "done" /\ args.subparser_name = "campaigns"

\* The start times of the model that do not match the format
MalformedTimes == {PlusOffset, Feb30}

HasMalformed == \E r \in Records : r.start_time \in MalformedTimes

FetchFailed ==
    \E k \in 1..Len(calls) :
        calls[k].op = "api_get" /\ calls[k].action = "blast" /\ ~calls[k].ok

\* C7: when the fetch of the campaigns fails, or a record at any position
\* has a malformed start_time, the load of the campaigns table is never
\* invoked, the table is not written and no set is returned: the pipeline
\* ends by the exception.
C7_ReportAbortsBeforeLoad ==
    (HasMalformed \/ FetchFailed) =>
        /\ \A k \in 1..Len(calls) : ~IsLoad(k)
        /\ CampaignTable \notin DOMAIN tables
        /\ returned = <<>>
        /\ pc \in {"report_loop", "exit"}
        /\ pc = "exit" => exc \in {ValueError, SailthruAPIException}
        /\ FetchFailed => pc = "exit"

\* The malformed record is the second of three: the first is in the file,
\* nothing was loaded
C7_Witness ==
    /\ pc = "exit"
    /\ exc = ValueError
    /\ Len(blasts_info_json) = 3
    /\ blasts_info_json[1].start_time \notin MalformedTimes
    /\ blasts_info_json[2].start_time \in MalformedTimes
    /\ blasts_info_json[3].start_time \notin MalformedTimes
    /\ files[CampaignFile] # <<>>
    /\ end_date = January13

\* In a daily run, the export of a blast has raised
ExportFailed == args.subparser_name = "export" /\ exc # "none" /\ LastPost > 0

\* C8: in daily mode, once the export of a blast has failed the run is over
\* in failure: the failing blast is the last one submitted, no blast the
\* loop had not reached has a job or a table, and the tables loaded before
\* are there.
C8_FailureStopsTheLoop ==
    ExportFailed =>
        /\ pc = "exit"
        /\ calls[LastPost].blast_id = blast_id
        /\ \A id \in todo :
              /\ \A k \in 1..Len(calls) : IsPost(k) => calls[k].blast_id # id
              /\ BlastTable(id) \notin DOMAIN tables
        /\ \A k \in 1..Len(calls) :
              (IsLoad(k) /\ calls[k].ok) => calls[k].table \in DOMAIN tables

\* The first of two exports failed: the other blast was never submitted
C8_Witness ==
    /\ ExportFailed
    /\ pc = "exit"
    /\ Cardinality(recent_blasts) = 2
    /\ Cardinality(todo) = 1

\* C9: the file handed to the loader has as many lines as the download, in
\* the same order: line 1 is "blast_id," and the header, each later line is
\* the blast id, "," and the line of the download; nothing else is in it.
C9_RewrittenCsv ==
    pc = "load_blast" =>
        LET orig == Lines(calls[Len(calls)].download.data)
            out == Lines(files[BlastFile])
        IN /\ Len(out) = Len(orig)
           /\ out[1] = <<"blast_id", ",">> \o orig[1]
           /\ \A k \in 2..Len(orig) : out[k] = Str(blast_id) \o <<",">> \o orig[k]

\* Blast 2 rewritten from a download of a header and two data lines
C9_Witness ==
    /\ pc = "load_blast"
    /\ blast_id = 2
    /\ Len(Lines(calls[Len(calls)].download.data)) = 3
    /\ Len(Lines(files[BlastFile])) = 3

\* The for loop of _send_campaign_report has written every record
Serialized ==
    /\ CampaignFile \in DOMAIN files
    /\ i = Len(blasts_info_json)
    /\ Len(blasts_info_json) >= 1

\* C10: the N >= 1 records are in the file unmodified and in the order of
\* the answer, one per line, with N - 1 "\n" between them and none at the end.
C10_NewlineDelimited ==
    Serialized =>
        LET text == files[CampaignFile]
            n == Len(blasts_info_json)
        IN /\ Cardinality({k \in 1..Len(text) : text[k].tok = "\n"}) = n - 1
           /\ text[Len(text)].tok # "\n"
           /\ Len(JsonLines(text)) = n
           /\ \A k \in 1..n : JsonLines(text)[k] = JsonDump(blasts_info_json[k])
           /\ \A k \in 1..n : NdjsonRows(text)[k] = blasts_info_json[k]

\* Three records written, two separators
C10_Witness ==
    /\ Serialized
    /\ Len(blasts_info_json) = 3
    /\ Cardinality({k \in 1..Len(files[CampaignFile]) :
                       files[CampaignFile][k].tok = "\n"}) = 2

(***************************************************************************)
(* The wrappers _post and _get                                             *)
(***************************************************************************)
IsApiCall(k) == calls[k].op \in {"api_post", "api_get"}
IsFetch(k) == calls[k].op = "api_get" /\ calls[k].action = "blast"

\* is_ok() of the response the remote call of entry k gave
CallOk(k) == IF IsFetch(k) THEN calls[k].ok ELSE calls[k].response.ok

\* C13: an invocation of _post or _get makes one remote call and no second
\* one: a failed response raises SailthruAPIException, ends the run and is
\* never handed to the caller; a successful response is what the caller gets.
\* So a run fetches the campaigns once at most and submits no blast twice.
C13_OneCallRaiseOrReturn ==
    /\ \A k \in 1..Len(calls) :
          (IsApiCall(k) /\ ~CallOk(k)) =>
              /\ k = Len(calls)
              /\ pc = "exit"
              /\ exc = SailthruAPIException
    /\ \A k \in 1..Len(calls) :
          (IsApiCall(k) /\ CallOk(k) /\ k = Len(calls)) =>
              /\ IsPost(k) =>
                    /\ job_id = BodyGet(calls[k].response.body, "job_id")
                    /\ exc = "none"
              /\ IsPoll(k) => response_2 = calls[k].response
              /\ IsFetch(k) => exc # SailthruAPIException
    /\ Cardinality({k \in 1..Len(calls) : IsFetch(k)}) <= 1
    /\ LET posts == {k \in 1..Len(calls) : IsPost(k)}
       IN Cardinality({calls[k].blast_id : k \in posts}) = Cardinality(posts)

\* A job was submitted and its id returned, then a status request failed
C13_Witness ==
    /\ Len(calls) >= 2
    /\ IsPost(1) /\ CallOk(1) /\ job_id = "job"
    /\ IsPoll(Len(calls)) /\ ~CallOk(Len(calls))
    /\ exc = SailthruAPIException

(***************************************************************************)
(* The order of the steps of one blast export                              *)
(***************************************************************************)
\* The job submission that entry k belongs to; 0 when there is none
PostBefore(k) ==
    LET posts == {p \in 1..(k - 1) : IsPost(p)}
    IN IF posts = {} THEN 0 ELSE CHOOSE p \in posts : \A j \in posts : j <= p

IsBlastLoad(k) == IsLoad(k) /\ calls[k].table # CampaignTable

\* C14: a download comes right after a status request of the job submitted
\* for that blast which answered completed, and fetches the export_url of
\* that very answer; no earlier status request of the job answered completed;
\* the load of a blast table comes right after the download, so that submit,
\* completed poll, download and load happen in that order.
C14_LoadOnlyAfterCompleted ==
    /\ \A k \in 1..Len(calls) :
          IsDownload(k) =>
              /\ k >= 3
              /\ PostBefore(k) > 0
              /\ IsPoll(k - 1)
              /\ PollStatus(k - 1) = "completed"
              /\ calls[k].url = calls[k - 1].response.body.export_url
              /\ calls[k - 1].job_id =
                     calls[PostBefore(k)].response.body.job_id
              /\ \A j \in (PostBefore(k) + 1)..(k - 2) :
                    /\ calls[j].op \in {"api_get", "sleep"}
                    /\ IsPoll(j) => PollStatus(j) \notin {"completed", "error"}
    /\ \A k \in 1..Len(calls) :
          IsBlastLoad(k) =>
              /\ k >= 4
              /\ IsDownload(k - 1)
              /\ calls[k - 1].download.ok
              /\ calls[k].table = BlastTable(calls[PostBefore(k)].blast_id)

\* A poll answered queued with a url, the next one completed with another
\* url, and the export was downloaded and loaded
C14_Witness ==
    /\ Len(calls) = 6
    /\ IsPost(1)
    /\ IsPoll(2) /\ PollStatus(2) = "queued"
    /\ calls[2].response.body.export_url = "url2"
    /\ IsPoll(4) /\ PollStatus(4) = "completed"
    /\ calls[4].response.body.export_url = "url1"
    /\ IsDownload(5) /\ calls[5].url = "url1"
    /\ IsBlastLoad(6) /\ calls[6].ok

(***************************************************************************)
(* The daily run and the three modes                                       *)
(***************************************************************************)
Daily == args.subparser_name = "export"

IsCampaignLoad(k) == IsLoad(k) /\ calls[k].table = CampaignTable

\* The identifiers of the blasts a job was submitted for
Submitted == {calls[k].blast_id : k \in {j \in 1..Len(calls) : IsPost(j)}}

\* The export that entry p submitted has returned normally before entry k:
\* there was no job, or its table was loaded
ExportReturned(p, k) ==
    \/ /\ k = p + 1
       /\ calls[p].response.ok
       /\ calls[p].response.body.job_id = None
    \/ /\ IsBlastLoad(k - 1)
       /\ calls[k - 1].ok
       /\ calls[k - 1].table = BlastTable(calls[p].blast_id)

\* C16: in the daily run the campaigns are fetched with status sent and the
\* campaigns table is loaded before the first job is submitted; a job is
\* submitted only when the export of the blast before it has returned; no
\* blast is submitted twice; and a run that ends without a failure has run
\* the export once for each identifier of the set the report returned and
\* for no other.
C16_DailyOrder ==
    Daily =>
        /\ \A k \in 1..Len(calls) :
              IsPost(k) =>
                  /\ k >= 3
                  /\ IsFetch(1) /\ calls[1].ok /\ calls[1].status = "sent"
                  /\ IsCampaignLoad(2) /\ calls[2].ok
                  /\ returned # <<>>
                  /\ calls[k].blast_id \in returned[1]
                  /\ PostBefore(k) = 0 => k = 3
                  /\ PostBefore(k) > 0 => ExportReturned(PostBefore(k), k)
        /\ Cardinality(Submitted) =
               Cardinality({k \in 1..Len(calls) : IsPost(k)})
        /\ pc = "done" =>
              /\ returned # <<>>
              /\ Submitted = returned[1]
              /\ Submitted = recent_blasts

\* A daily run that exported two blasts and ended without a failure
C16_Witness ==
    /\ Daily
    /\ pc = "done"
    /\ Cardinality(Submitted) = 2
    /\ \E k \in 1..Len(calls) : IsBlastLoad(k)

\* C17: a run in campaigns mode submits no job, downloads nothing and loads
\* no blast table, though it computes the set of recent blasts; a run in
\* blast mode fetches no campaigns, does not load the campaigns table and
\* loads no table but that of the blast it was given.
C17_ModesApart ==
    /\ args.subparser_name = "campaigns" =>
          /\ \A k \in 1..Len(calls) :
                ~IsPost(k) /\ ~IsPoll(k) /\ ~IsDownload(k) /\ ~IsBlastLoad(k)
          /\ DOMAIN tables \subseteq {CampaignTable}
          /\ BlastFile \notin DOMAIN files
          /\ recent_blasts = {} /\ todo = {}
    /\ args.subparser_name = "blast" =>
          /\ \A k \in 1..Len(calls) :
                /\ ~IsFetch(k) /\ ~IsCampaignLoad(k)
                /\ IsPost(k) => calls[k].blast_id = args.blast_id
                /\ IsLoad(k) => calls[k].table = BlastTable(args.blast_id)
          /\ DOMAIN tables \subseteq {BlastTable(args.blast_id)}
          /\ CampaignFile \notin DOMAIN files
          /\ Cardinality({k \in 1..Len(calls) : IsPost(k)}) <= 1

\* A run in campaigns mode that found recent blasts and loaded the campaigns
\* table, at its end
C17_WitnessCampaigns ==
    /\ args.subparser_name = "campaigns"
    /\ pc = "done"
    /\ returned # <<>>
    /\ Cardinality(recent_blast_ids) >= 2
    /\ CampaignTable \in DOMAIN tables

\* A run in blast mode that loaded the table of blast 2, at its end
C17_WitnessBlast ==
    /\ args.subparser_name = "blast"
    /\ args.blast_id = 2
    /\ pc = "done"
    /\ DOMAIN tables = {BlastTable(2)}

(***************************************************************************)
(* The files of the temp directory                                         *)
(***************************************************************************)
\* The text starts with the identifier of blast id and a comma
ForBlast(line, id) ==
    /\ Len(line) > Len(Str(id))
    /\ SubSeq(line, 1, Len(Str(id)) + 1) = Str(id) \o <<",">>

\* The download of the current blast has been made
Downloaded ==
    /\ LastPost > 0
    /\ \E k \in (LastPost + 1)..Len(calls) : IsDownload(k)

\* C18: the temp directory never holds a file other than blast_export.csv
\* and campaigns_export.json, so two files at most; every file handed to
\* the loader is one of the two; and once the export of a blast has opened
\* blast_export.csv, every line of it after the header was written for that
\* blast, the last one a job was submitted for: what an earlier export of
\* the run wrote is gone.
C18_TwoFilesOverwritten ==
    /\ DOMAIN files \subseteq {BlastFile, CampaignFile}
    /\ Cardinality(DOMAIN files) <= 2
    /\ ~temp_dir_exists => files = NoFiles
    /\ \A k \in 1..Len(calls) :
          IsLoad(k) =>
              calls[k].file =
                  IF IsBlastLoad(k) THEN BlastFile ELSE CampaignFile
    /\ (Downloaded /\ temp_dir_exists) =>
          /\ BlastFile \in DOMAIN files
          /\ LET out == Lines(files[BlastFile])
             IN /\ \A k \in 2..Len(out) :
                      ForBlast(out[k], calls[LastPost].blast_id)
                /\ \A k \in 1..Len(calls) :
                      (IsDownload(k) /\ k > LastPost /\ calls[k].download.ok) =>
                          Len(out) = Len(Lines(calls[k].download.data))

\* The second export of a daily run is about to load a file that is shorter
\* than the one the first export wrote; both files are in the directory
C18_Witness ==
    /\ pc = "load_blast"
    /\ DOMAIN files = {BlastFile, CampaignFile}
    /\ Len(Lines(files[BlastFile])) = 1
    /\ \E k \in 1..LastPost :
          /\ IsDownload(k)
          /\ calls[k].download.ok
          /\ Len(Lines(calls[k].download.data)) = 2

(***************************************************************************)
(* The tables after several runs                                           *)
(***************************************************************************)
\* The successful loads of table t, in the order of the log
LoadsOf(t) == {k \in 1..Len(calls) : IsLoad(k) /\ calls[k].ok /\ calls[k].table = t}

LastLoadOf(t) == CHOOSE k \in LoadsOf(t) : \A j \in LoadsOf(t) : j <= k

\* The rows the export of entry k (a load of a blast table) has for its
\* table: the data lines of its download, the blast's identifier before each
ExportedRows(k) ==
    LET orig == Lines(calls[k - 1].download.data)
        id == calls[PostBefore(k)].blast_id
    IN [j \in 1..(Len(orig) - 1) |-> Str(id) \o <<",">> \o Chomp(orig[j + 1])]

\* C11: whatever exports were made, in one run or in several, the table of
\* a blast exists when an export of the blast was loaded, and holds the rows
\* of the latest such export and nothing of the earlier ones.  The table of
\* a blast thus depends on its own latest export alone: an export of another
\* blast leaves it as it was, and a second export of the same remote data
\* leaves what the first one left.
C11_BlastTableIsLatestExport ==
    /\ \A id \in BlastIds :
          BlastTable(id) \in DOMAIN tables <=> LoadsOf(BlastTable(id)) # {}
    /\ \A id \in BlastIds :
          LoadsOf(BlastTable(id)) # {} =>
              /\ IsBlastLoad(LastLoadOf(BlastTable(id)))
              /\ calls[PostBefore(LastLoadOf(BlastTable(id)))].blast_id = id
              /\ tables[BlastTable(id)] =
                     ExportedRows(LastLoadOf(BlastTable(id)))

\* Blast 1 was exported in an earlier run with two data rows and again in
\* this run with one: its table holds the one row
C11_Witness ==
    /\ Cardinality(LoadsOf(BlastTable(1))) = 2
    /\ \E k \in LoadsOf(BlastTable(1)) : Len(ExportedRows(k)) = 2
    /\ tables[BlastTable(1)] = << <<"1", ",", "a">> >>

\* Blast 1 was exported, then blast 2: both tables are there
C11_WitnessOther ==
    /\ LoadsOf(BlastTable(1)) # {}
    /\ LoadsOf(BlastTable(2)) # {}
    /\ LastLoadOf(BlastTable(1)) < LastLoadOf(BlastTable(2))
    /\ Len(tables[BlastTable(1)]) = 2

\* The blast_id of row r of the campaigns table
RowId(r) == r.blast_id

\* C12: however often the campaign report has run, the campaigns table
\* holds one row per campaign: no two of its rows are of the same blast_id.
C12_OneRowPerCampaign ==
    CampaignTable \in DOMAIN tables =>
        \A a, b \in 1..Len(tables[CampaignTable]) :
            a # b => RowId(tables[CampaignTable][a]) #
                     RowId(tables[CampaignTable][b])

(***************************************************************************)
(* The polling loop                                                        *)
(***************************************************************************)
IsSleep(k) == calls[k].op = "sleep"

\* Every status request of the current job was answered with a status that
\* is neither completed nor expired
OnlyPending ==
    /\ CurrentPolls # {}
    /\ \A k \in CurrentPolls :
          PollStatus(k) \notin {"completed", "expired", "error"}

\* One status request for each sleep of 5 seconds, and while the answers
\* are neither completed nor expired the export is in the loop: nothing was
\* downloaded or loaded, nothing was raised
C15_KeepsPolling ==
    /\ \A k \in 1..Len(calls) :
          IsSleep(k) =>
              /\ calls[k].seconds = 5
              /\ k > 1 /\ IsPoll(k - 1)
              /\ k < Len(calls) /\ IsPoll(k + 1)
    /\ \A k \in 1..Len(calls) :
          IsPoll(k) => k > 1 /\ (IsPost(k - 1) \/ IsSleep(k - 1))
    /\ OnlyPending =>
          /\ pc = "sleep"
          /\ exc = "none"
          /\ ~CurrentProceeded

\* The polling loop has been left: for the download, which the load
\* follows, or by SailthruAPIException
LoopLeft ==
    \/ pc = "download"
    \/ pc = "exit" /\ exc = SailthruAPIException

\* C15: an export with a job_id makes one status request per iteration of 5
\* seconds and stays in the loop, loading nothing and raising nothing, as
\* long as no answer is completed or expired; and when the remote job comes
\* to be completed or expired, the export in the loop leaves it, for the
\* download and the load or with SailthruAPIException.
C15_PollsUntilJobIsOver ==
    /\ [](C15_KeepsPolling)
    /\ (pc = "sleep") ~> LoopLeft

\* Every answer was queued up to the last status request the model allows,
\* which was answered completed: the loop is left for the download
C15_Witness ==
    /\ pc = "download"
    /\ Polls = MaxPolls
    /\ Cardinality({k \in CurrentPolls : PollStatus(k) = "queued"}) = MaxPolls

=============================================================================
